---- MODULE Spec2Model ----
(***************************************************************************)
(* Model of FeedbackJSONSyncAI (src/FeedbackJSONSync-AI.py): the decoders  *)
(* parse_json / parse_csv, validate_data, generate_validation_report,      *)
(* process_feedback, generate_detailed_report and their orchestration in   *)
(* process_data, plus the lexicon scorer calculate_sentiment_score.        *)
(*                                                                         *)
(* Python values are modelled as records [t, w, n]:                        *)
(*   t = "absent"  the key is not in the mapping                           *)
(*   t = "none"    None                                                    *)
(*   t = "str"     a string, w = its pieces, written one after another;    *)
(*                 the piece " " is whitespace                             *)
(*   t = "num"     an int or float, n = the value in hundredths            *)
(*   t = "list"    a non-empty JSON array                                  *)
(***************************************************************************)
EXTENDS Integers, Sequences, FiniteSets, TLC

VARIABLES data_input, pc, data, is_valid, error_messages, processed_data,
          result, stages, text, score_result

vars == <<data_input, pc, data, is_valid, error_messages, processed_data,
          result, stages, text, score_result>>

scorer_vars == <<text, score_result>>

\* Longest batch of records in one input.
MaxBatch == 2

\* Longest text (in pieces) handed to the scorer on its own.
MaxLen == 3

----------------------------------------------------------------------------
\* Values

Absent == [t |-> "absent", w |-> <<>>, n |-> 0]
None == [t |-> "none", w |-> <<>>, n |-> 0]
Str(w) == [t |-> "str", w |-> w, n |-> 0]
Num(n) == [t |-> "num", w |-> <<>>, n |-> n]
List == [t |-> "list", w |-> <<>>, n |-> 0]

SP == " "

Range(s) == {s[i] : i \in 1..Len(s)}

\* `key in record`
Has(record, field) == record[field].t # "absent"

\* bool(value) for a value that is present
Truthy(v) ==
  CASE v.t = "none" -> FALSE
    [] v.t = "str" -> v.w # <<>>
    [] v.t = "num" -> v.n # 0
    [] OTHER -> TRUE

\* str.lower() on the pieces the model uses
Lower(p) ==
  CASE p = "Good" -> "good"
    [] p = "NULL" -> "null"
    [] p = "Null" -> "null"
    [] p = "ENG" -> "eng"
    [] OTHER -> p

LowerAll(w) == [i \in 1..Len(w) |-> Lower(w[i])]

\* str.split(): the maximal runs of pieces between whitespace, in order; a
\* token is the sequence of pieces glued together in it.
RECURSIVE SplitFrom(_, _)
SplitFrom(w, run) ==
  IF w = <<>> THEN (IF run = <<>> THEN <<>> ELSE <<run>>)
  ELSE IF Head(w) = SP
       THEN (IF run = <<>> THEN <<>> ELSE <<run>>) \o SplitFrom(Tail(w), <<>>)
       ELSE SplitFrom(Tail(w), Append(run, Head(w)))

Split(w) == SplitFrom(w, <<>>)

\* float(s) for a string: the numerals the model uses, in hundredths;
\* anything else raises ValueError.
IsNumeral(w) == w \in {<<"0.5">>, <<"1.5">>, <<"-1">>}

NumeralValue(w) ==
  CASE w = <<"0.5">> -> 50
    [] w = <<"1.5">> -> 150
    [] w = <<"-1">> -> -100
    [] OTHER -> 0

\* float(v): [exc, n]
Float(v) ==
  CASE v.t = "num" -> [exc |-> "", n |-> v.n]
    [] v.t = "str" ->
         IF IsNumeral(v.w) THEN [exc |-> "", n |-> NumeralValue(v.w)]
         ELSE [exc |-> "ValueError", n |-> 0]
    [] OTHER -> [exc |-> "TypeError", n |-> 0]

----------------------------------------------------------------------------
\* __init__

positive_words == <<"good", "excellent", "great", "happy", "love", "positive", "satisfied">>
negative_words == <<"bad", "poor", "terrible", "unhappy", "hate", "negative", "dissatisfied">>
required_fields == <<"feedback_id", "language", "feedback_text", "timestamp">>

----------------------------------------------------------------------------
\* calculate_sentiment_score

\* round(a / b, 2) * 100 for b > 0 and a = 100 * numerator: nearest integer,
\* exact ties to even (the quotients k/8 are the only ties below 40 words
\* and are exact binary fractions).
RoundHalfEven(a, b) ==
  LET q == a \div b
      r == a % b
  IN  IF 2 * r < b THEN q
      ELSE IF 2 * r > b THEN q + 1
      ELSE IF q % 2 = 0 THEN q ELSE q + 1

\* sum(1 for word in lexicon if word in tokens)
LexiconCount(lexicon, tokens) ==
  Cardinality({i \in 1..Len(lexicon) : <<lexicon[i]>> \in Range(tokens)})

\* Every token occurrence that is a lexicon word counts.
OccurrenceCount(lexicon, tokens) ==
  Cardinality({j \in 1..Len(tokens) : \E i \in 1..Len(lexicon) : tokens[j] = <<lexicon[i]>>})

\* The quotient without the total_words > 0 guard.
SentimentQuotientUnguarded(positive_count, negative_count, total_words) ==
  IF total_words > 0
  THEN [exc |-> "", n |-> RoundHalfEven(100 * (positive_count - negative_count), total_words)]
  ELSE [exc |-> "ZeroDivisionError", n |-> 0]

\* lines 174-180
SentimentQuotient(positive_count, negative_count, total_words) ==
  IF total_words > 0
  THEN [exc |-> "", n |-> RoundHalfEven(100 * (positive_count - negative_count), total_words)]
  ELSE [exc |-> "", n |-> 0]

\* calculate_sentiment_score(text): [exc, score, positive_count,
\* negative_count, total_words]; a value without .lower() raises.
CalculateSentimentScore(v) ==
  IF v.t # "str"
  THEN [exc |-> "AttributeError", score |-> 0, positive_count |-> 0,
        negative_count |-> 0, total_words |-> 0]
  ELSE LET tokens == Split(LowerAll(v.w))
           p == LexiconCount(positive_words, tokens)
           n == LexiconCount(negative_words, tokens)
           total == Len(tokens)
           q == SentimentQuotient(p, n, total)
       IN  [exc |-> q.exc, score |-> q.n, positive_count |-> p,
            negative_count |-> n, total_words |-> total]

----------------------------------------------------------------------------
\* translate_feedback

\* The text an f-string puts in for a value.
Format(v) ==
  CASE v.t = "str" -> v.w
    [] v.t = "num" -> <<"<number>">>
    [] v.t = "none" -> <<"None">>
    [] OTHER -> <<"<object>">>

\* The '[Translated from <language>] ' prefix: three tokens.
Annotation(language) ==
  <<"[Translated", SP, "from", SP>> \o Format(language) \o <<"]", SP>>

TranslateFeedback(feedback_text, language) ==
  IF language = Str(<<"en">>) THEN feedback_text
  ELSE Str(Annotation(language) \o Format(feedback_text))

----------------------------------------------------------------------------
\* datetime.fromisoformat / astimezone / isoformat on the timestamps the
\* model uses: <<date, time, offset>> pieces, the offset possibly "Z".

\* timestamp.replace('Z', '+00:00')
ReplaceZ(w) == [i \in 1..Len(w) |-> IF w[i] = "Z" THEN "+00:00" ELSE w[i]]

IsDate(p) == p \in {"0001-01-01", "2023-03-21"}
IsTime(p) == p \in {"T00:00:00", "T07:00:00", "T08:00:00", "T09:00:00"}
IsOffset(p) == p \in {"+00:00", "+01:00", "-01:00"}

\* date.toordinal()
DateOrdinal(p) == IF p = "0001-01-01" THEN 1 ELSE 738600
OrdinalDate(d) == IF d = 1 THEN "0001-01-01" ELSE "2023-03-21"

TimeHour(p) ==
  CASE p = "T00:00:00" -> 0
    [] p = "T07:00:00" -> 7
    [] p = "T08:00:00" -> 8
    [] OTHER -> 9

HourTime(h) ==
  CASE h = 0 -> "T00:00:00"
    [] h = 7 -> "T07:00:00"
    [] h = 8 -> "T08:00:00"
    [] OTHER -> "T09:00:00"

OffsetHours(p) ==
  CASE p = "+01:00" -> 1
    [] p = "-01:00" -> 0 - 1
    [] OTHER -> 0

\* fromisoformat(w): [exc, hours since 0001-01-01T00:00 local, offset]
FromIsoFormat(w) ==
  IF Len(w) = 3 /\ IsDate(w[1]) /\ IsTime(w[2]) /\ IsOffset(w[3])
  THEN [exc |-> "", hours |-> (DateOrdinal(w[1]) - 1) * 24 + TimeHour(w[2]),
        offset |-> OffsetHours(w[3])]
  ELSE [exc |-> "ValueError", hours |-> 0, offset |-> 0]

\* dt.astimezone(utc).isoformat(): the instant with offset +00:00; an
\* instant before datetime.min raises OverflowError.
IsoFormatUtc(dt) ==
  LET utc == dt.hours - dt.offset
  IN  IF utc < 0 THEN [exc |-> "OverflowError", v |-> None]
      ELSE [exc |-> "",
            v |-> Str(<<OrdinalDate((utc \div 24) + 1), HourTime(utc % 24), "+00:00">>)]

\* synchronize_timestamp(timestamp): [exc, v]
SynchronizeTimestamp(timestamp) ==
  IF timestamp.t # "str" THEN [exc |-> "AttributeError", v |-> None]
  ELSE LET dt == FromIsoFormat(ReplaceZ(timestamp.w))
       IN  IF dt.exc # "" THEN [exc |-> dt.exc, v |-> None]
           ELSE IsoFormatUtc(dt)

----------------------------------------------------------------------------
\* validate_data

\* re.match(r'^[a-z]{2}$', s) for a string s
MatchesIso639(w) == Len(w) = 1 /\ w[1] \in {"en", "es", "fr", "de"}

Message(kind, fields, row_num) == [kind |-> kind, fields |-> fields, row |-> row_num]

\* [field for field in required_fields if field not in record or not record[field]]
MissingFields(record) ==
  SelectSeq(required_fields, LAMBDA f : ~Has(record, f) \/ ~Truthy(record[f]))

MissingCheck(record, row_num) ==
  IF MissingFields(record) # <<>>
  THEN <<Message("missing", MissingFields(record), row_num)>>
  ELSE <<>>

ScoreCheck(record, row_num) ==
  IF Has(record, "sentiment_score") /\ record.sentiment_score.t # "none"
  THEN LET score == Float(record.sentiment_score)
       IN  IF score.exc # ""
           THEN <<Message("score_type", <<"sentiment_score">>, row_num)>>
           ELSE IF score.n < -100 \/ score.n > 100
                THEN <<Message("score_range", <<"sentiment_score">>, row_num)>>
                ELSE <<>>
  ELSE <<>>

LanguageCheck(record, row_num) ==
  IF Has(record, "language") /\ Truthy(record.language)
     /\ record.language.t = "str" /\ ~MatchesIso639(record.language.w)
  THEN <<Message("language", <<"language">>, row_num)>>
  ELSE <<>>

TimestampCheck(record, row_num) ==
  IF Has(record, "timestamp") /\ Truthy(record.timestamp)
     /\ record.timestamp.t = "str"
     /\ FromIsoFormat(ReplaceZ(record.timestamp.w)).exc # ""
  THEN <<Message("timestamp", <<"timestamp">>, row_num)>>
  ELSE <<>>

\* The exception one record makes validate_data raise, "" when none:
\* re.match on a truthy non-string, then .replace on a truthy non-string.
RecordRaises(record) ==
  IF Has(record, "language") /\ Truthy(record.language) /\ record.language.t # "str"
  THEN "TypeError"
  ELSE IF Has(record, "timestamp") /\ Truthy(record.timestamp)
          /\ record.timestamp.t # "str"
       THEN "AttributeError"
       ELSE ""

\* The body of the loop with the four checks chained by elif.
RecordErrorsFirstOnly(record, row_num) ==
  IF MissingCheck(record, row_num) # <<>> THEN MissingCheck(record, row_num)
  ELSE IF ScoreCheck(record, row_num) # <<>> THEN ScoreCheck(record, row_num)
  ELSE IF LanguageCheck(record, row_num) # <<>> THEN LanguageCheck(record, row_num)
  ELSE TimestampCheck(record, row_num)

\* lines 35-64: the messages one record appends
RecordErrors(record, row_num) ==
  MissingCheck(record, row_num) \o ScoreCheck(record, row_num)
    \o LanguageCheck(record, row_num) \o TimestampCheck(record, row_num)

\* Whether one record leaves is_valid as it was: no branch of lines 38, 46,
\* 49, 55, 63 is taken.
RecordKeepsValid(record, row_num) ==
  /\ MissingFields(record) = <<>>
  /\ ScoreCheck(record, row_num) = <<>>
  /\ LanguageCheck(record, row_num) = <<>>
  /\ TimestampCheck(record, row_num) = <<>>

\* row_num = idx + 1, for the 1-based position idx of the sequence
RowNumber(idx) == idx

RECURSIVE ValidateFrom(_, _, _, _)
ValidateFrom(records, idx, valid, messages) ==
  IF idx > Len(records)
  THEN [exc |-> "", is_valid |-> valid, error_messages |-> messages]
  ELSE IF RecordRaises(records[idx]) # ""
       THEN [exc |-> RecordRaises(records[idx]), is_valid |-> FALSE,
             error_messages |-> <<>>]
       ELSE ValidateFrom(records, idx + 1,
                         valid /\ RecordKeepsValid(records[idx], RowNumber(idx)),
                         messages \o RecordErrors(records[idx], RowNumber(idx)))

\* validate_data(data): [exc, is_valid, error_messages]
ValidateData(records) == ValidateFrom(records, 1, TRUE, <<>>)

----------------------------------------------------------------------------
\* generate_validation_report

\* line 82
FeedbackIdStatus(records) ==
  IF \A i \in 1..Len(records) :
       Has(records[i], "feedback_id") /\ Truthy(records[i].feedback_id)
  THEN "present" ELSE "missing"

\* line 83: all(...) over the records that have the key, in order; re.match
\* on a value that is not a string raises TypeError, a string that does not
\* match ends the scan. [exc, status]
RECURSIVE LanguageStatusFrom(_, _)
LanguageStatusFrom(records, idx) ==
  IF idx > Len(records) THEN [exc |-> "", status |-> "valid"]
  ELSE IF ~Has(records[idx], "language") THEN LanguageStatusFrom(records, idx + 1)
  ELSE IF records[idx].language.t # "str" THEN [exc |-> "TypeError", status |-> ""]
  ELSE IF ~MatchesIso639(records[idx].language.w) THEN [exc |-> "", status |-> "invalid"]
  ELSE LanguageStatusFrom(records, idx + 1)

LanguageStatus(records) == LanguageStatusFrom(records, 1)

\* line 84
FeedbackTextStatus(records) ==
  IF \A i \in 1..Len(records) : Has(records[i], "feedback_text")
  THEN "valid" ELSE "invalid"

\* line 85
TimestampStatus(records) ==
  IF \A i \in 1..Len(records) :
       Has(records[i], "timestamp") /\ Truthy(records[i].timestamp)
  THEN "valid" ELSE "invalid"

\* lines 86-99
SentimentScoreStatus(records) ==
  IF \E i \in 1..Len(records) :
       /\ Has(records[i], "sentiment_score")
       /\ records[i].sentiment_score.t # "none"
       /\ LET score == Float(records[i].sentiment_score)
          IN  score.exc # "" \/ score.n < -100 \/ score.n > 100
  THEN "invalid" ELSE "valid"

NoReport ==
  [total |-> 0, field_status |-> <<>>, lines |-> <<>>, success |-> FALSE,
   blocks |-> <<>>, payload |-> <<>>]

\* generate_validation_report(data): [exc, report]
GenerateValidationReport(records) ==
  LET v == ValidateData(records)
      language == LanguageStatus(records)
  IN  IF v.exc # "" THEN [exc |-> v.exc, report |-> NoReport]
      ELSE IF language.exc # "" THEN [exc |-> language.exc, report |-> NoReport]
      ELSE [exc |-> "",
            report |->
              [total |-> Len(records),
               field_status |-> <<FeedbackIdStatus(records), language.status,
                                  FeedbackTextStatus(records),
                                  TimestampStatus(records),
                                  SentimentScoreStatus(records)>>,
               success |-> v.is_valid,
               lines |-> IF v.is_valid THEN <<>> ELSE v.error_messages,
               blocks |-> <<>>, payload |-> <<>>]]

----------------------------------------------------------------------------
\* process_feedback

NoRecord ==
  [mapping |-> TRUE, feedback_id |-> Absent, language |-> Absent,
   feedback_text |-> Absent, timestamp |-> Absent, sentiment_score |-> Absent]

\* Scoring the text as it came in.
ScoredTextOriginal(record, translated) == record.feedback_text

\* line 207: the text handed to calculate_sentiment_score
ScoredText(record, translated) == translated

\* lines 198-212 for one record: [exc, record]
ProcessRecord(record) ==
  IF \E i \in 1..Len(required_fields) : ~Has(record, required_fields[i])
  THEN [exc |-> "KeyError", record |-> NoRecord]
  ELSE
    LET translated == TranslateFeedback(record.feedback_text, record.language)
        synchronized == SynchronizeTimestamp(record.timestamp)
        computed == CalculateSentimentScore(ScoredText(record, translated))
        supplied == Float(record.sentiment_score)
        compute == ~Has(record, "sentiment_score") \/ record.sentiment_score.t = "none"
    IN  IF synchronized.exc # "" THEN [exc |-> synchronized.exc, record |-> NoRecord]
        ELSE IF compute /\ computed.exc # "" THEN [exc |-> computed.exc, record |-> NoRecord]
        ELSE IF ~compute /\ supplied.exc # "" THEN [exc |-> supplied.exc, record |-> NoRecord]
        ELSE [exc |-> "",
              record |->
                [mapping |-> TRUE,
                 feedback_id |-> record.feedback_id,
                 language |-> record.language,
                 feedback_text |-> translated,
                 timestamp |-> synchronized.v,
                 sentiment_score |-> IF compute THEN Num(computed.score)
                                     ELSE Num(supplied.n)]]

RECURSIVE ProcessFrom(_, _, _)
ProcessFrom(records, idx, processed) ==
  IF idx > Len(records) THEN [exc |-> "", processed_data |-> processed]
  ELSE LET r == ProcessRecord(records[idx])
       IN  IF r.exc # "" THEN [exc |-> r.exc, processed_data |-> <<>>]
           ELSE ProcessFrom(records, idx + 1, Append(processed, r.record))

\* process_feedback(data): [exc, processed_data]
ProcessFeedback(records) == ProcessFrom(records, 1, <<>>)

----------------------------------------------------------------------------
\* generate_detailed_report

\* lines 237-268 for one pair: the values the block shows
Block(original, processed) ==
  LET s == CalculateSentimentScore(processed.feedback_text)
  IN  [exc |-> s.exc,
       feedback_id |-> original.feedback_id,
       language |-> original.language,
       feedback_text |-> original.feedback_text,
       provided |-> original.sentiment_score,
       timestamp |-> original.timestamp,
       translated |-> processed.feedback_text,
       positive_count |-> s.positive_count,
       negative_count |-> s.negative_count,
       total_words |-> s.total_words,
       calculation |-> s.score,
       final |-> processed.sentiment_score,
       synchronized |-> processed.timestamp]

\* generate_detailed_report(data, processed_data): [exc, report]
GenerateDetailedReport(records, processed) ==
  LET n == IF Len(records) < Len(processed) THEN Len(records) ELSE Len(processed)
      blocks == [i \in 1..n |-> Block(records[i], processed[i])]
  IN  IF \E i \in 1..n : blocks[i].exc # ""
      THEN [exc |-> blocks[CHOOSE i \in 1..n :
                             /\ blocks[i].exc # ""
                             /\ \A j \in 1..(i - 1) : blocks[j].exc = ""].exc,
            report |-> NoReport]
      ELSE [exc |-> "",
            report |-> [total |-> Len(records), field_status |-> <<>>,
                        lines |-> <<>>, success |-> TRUE,
                        blocks |-> blocks, payload |-> processed]]

----------------------------------------------------------------------------
\* parse_json, parse_csv

\* lines 328-331 for one element of the feedbacks array: [exc, record]
NormaliseJsonRecord(record) ==
  IF ~record.mapping THEN [exc |-> "TypeError", record |-> record]
  ELSE IF Has(record, "sentiment_score")
          /\ (record.sentiment_score.t = "none"
              \/ record.sentiment_score = Str(<<"null">>))
       THEN [exc |-> "", record |-> [record EXCEPT !.sentiment_score = None]]
  ELSE IF Has(record, "sentiment_score") /\ record.sentiment_score # Str(<<>>)
       THEN LET f == Float(record.sentiment_score)
            IN  [exc |-> f.exc,
                 record |-> [record EXCEPT !.sentiment_score = Num(f.n)]]
  ELSE [exc |-> "", record |-> record]

\* lines 301-304 for one row: [exc, record]
NormaliseCsvRow(row) ==
  IF Has(row, "sentiment_score")
     /\ (~Truthy(row.sentiment_score)
         \/ LowerAll(row.sentiment_score.w) = <<"null">>)
  THEN [exc |-> "", record |-> [row EXCEPT !.sentiment_score = None]]
  ELSE IF Has(row, "sentiment_score") /\ Truthy(row.sentiment_score)
       THEN LET f == Float(row.sentiment_score)
            IN  [exc |-> f.exc,
                 record |-> [row EXCEPT !.sentiment_score = Num(f.n)]]
  ELSE [exc |-> "", record |-> row]

\* lines 327-331: the loop over the feedbacks array
RECURSIVE NormaliseJsonFrom(_, _, _)
NormaliseJsonFrom(records, idx, out) ==
  IF idx > Len(records) THEN [exc |-> "", records |-> out]
  ELSE LET r == NormaliseJsonRecord(records[idx])
       IN  IF r.exc # "" THEN [exc |-> r.exc, records |-> <<>>]
           ELSE NormaliseJsonFrom(records, idx + 1, Append(out, r.record))

\* lines 299-306: the loop over the rows
RECURSIVE NormaliseCsvFrom(_, _, _)
NormaliseCsvFrom(rows, idx, out) ==
  IF idx > Len(rows) THEN [exc |-> "", records |-> out]
  ELSE LET r == NormaliseCsvRow(rows[idx])
       IN  IF r.exc # "" THEN [exc |-> r.exc, records |-> <<>>]
           ELSE NormaliseCsvFrom(rows, idx + 1, Append(out, r.record))

\* parse_json(json_data): [exc, msg, records]
ParseJson(input) ==
  CASE input.shape = "malformed" ->
         [exc |-> "ValueError", msg |-> "ERROR: Invalid JSON format.", records |-> <<>>]
    [] input.shape = "no_feedbacks" ->
         [exc |-> "ValueError",
          msg |-> "ERROR: Invalid JSON structure. Expected 'feedbacks' array.",
          records |-> <<>>]
    [] OTHER ->
         LET r == NormaliseJsonFrom(input.records, 1, <<>>)
         IN  [exc |-> r.exc,
              msg |-> IF r.exc = "ValueError"
                      THEN "could not convert string to float" ELSE "",
              records |-> r.records]

\* parse_csv(csv_data): every exception is re-raised as ValueError
ParseCsv(input) ==
  LET r == NormaliseCsvFrom(input.records, 1, <<>>)
  IN  IF r.exc # ""
      THEN [exc |-> "ValueError", msg |-> "ERROR: Invalid CSV format.",
            records |-> <<>>]
      ELSE [exc |-> "", msg |-> "", records |-> r.records]

----------------------------------------------------------------------------
\* Inputs

Rec(id, language, feedback_text, timestamp, score) ==
  [mapping |-> TRUE, feedback_id |-> id, language |-> language,
   feedback_text |-> feedback_text, timestamp |-> timestamp,
   sentiment_score |-> score]

\* An element of the feedbacks array that is a number, not an object.
NonMapping == [NoRecord EXCEPT !.mapping = FALSE]

TsZulu == Str(<<"2023-03-21", "T08:00:00", "Z">>)
TsPlus == Str(<<"2023-03-21", "T08:00:00", "+01:00">>)
TsFirstHour == Str(<<"0001-01-01", "T00:00:00", "+01:00">>)
TsBad == Str(<<"yesterday">>)

\* The record of the example input (FB601) and, per field, a value that
\* breaks a validation rule: feedback_id and feedback_text missing together,
\* a three-letter language, an unparseable timestamp, a score of 1.5.
JsonNominal == Rec(Str(<<"FB601">>), Str(<<"en">>), Str(<<"good">>), TsZulu, Absent)
JsonViolating == Rec(Absent, Str(<<"ENG">>), Absent, TsBad, Num(150))

JsonFieldValues ==
  [feedback_id |-> {Absent, Str(<<"FB601">>), Num(700)},
   language |-> {Absent, None, Str(<<"en">>), Str(<<"es">>), Str(<<"ENG">>)},
   feedback_text |-> {Absent, Str(<<>>), Str(<<"good">>), Num(500)},
   timestamp |-> {Absent, TsZulu, TsPlus, TsFirstHour, TsBad, Num(2023)},
   sentiment_score |-> {Absent, None, Str(<<"null">>), Str(<<"NULL">>), Str(<<>>),
                        Num(50), Num(150), Str(<<"abc">>), List}]

CsvNominal == Rec(Str(<<"FB601">>), Str(<<"en">>), Str(<<"good">>), TsZulu, Str(<<>>))

\* csv.DictReader cells are strings; the header names all five columns.
CsvFieldValues ==
  [feedback_id |-> {Str(<<"FB601">>), Str(<<>>)},
   language |-> {Str(<<"en">>), Str(<<"es">>), Str(<<"ENG">>), Str(<<>>)},
   feedback_text |-> {Str(<<"good">>), Str(<<>>)},
   timestamp |-> {TsZulu, TsFirstHour, TsBad, Str(<<>>)},
   sentiment_score |-> {Str(<<>>), Str(<<"null">>), Str(<<"NULL">>),
                        Str(<<"0.5">>), Str(<<"1.5">>), Str(<<"abc">>)}]

FieldNames == {"feedback_id", "language", "feedback_text", "timestamp", "sentiment_score"}

AllRecords(values) ==
  {Rec(a, b, c, d, e) : a \in values.feedback_id, b \in values.language,
                        c \in values.feedback_text, d \in values.timestamp,
                        e \in values.sentiment_score}

\* The records that differ from the nominal one in at most one field.
SingleDeviations(values, nominal) ==
  {r \in AllRecords(values) :
     \A f, g \in FieldNames : (r[f] # nominal[f] /\ r[g] # nominal[g]) => f = g}

\* The records that break any number of the four validation rules at once.
ViolationCombinations(values, nominal, violating) ==
  {r \in AllRecords(values) :
     /\ \A f \in FieldNames : r[f] \in {nominal[f], violating[f]}
     /\ r.feedback_id = violating.feedback_id
          <=> r.feedback_text = violating.feedback_text}

JsonRecords ==
  SingleDeviations(JsonFieldValues, JsonNominal)
    \cup ViolationCombinations(JsonFieldValues, JsonNominal, JsonViolating)
    \cup {NonMapping}

CsvRecords == SingleDeviations(CsvFieldValues, CsvNominal)

\* What process_data can be handed: text that starts with '{' (malformed,
\* without a feedbacks array, or with one), or a table.
JsonText(shape, records) == [format |-> "json", shape |-> shape, records |-> records]
CsvText(rows) == [format |-> "csv", shape |-> "table", records |-> rows]

NoInput == [format |-> "none", shape |-> "none", records |-> <<>>]

ScorerPieces == {"good", "Good", "great", "bad", "ness", SP}

----------------------------------------------------------------------------
\* process_data

NoResult == [kind |-> "none", exc |-> "", msg |-> "", report |-> NoReport]
ErrorString(msg) == [kind |-> "error_string", exc |-> "", msg |-> msg, report |-> NoReport]
Raised(exc) == [kind |-> "exception", exc |-> exc, msg |-> "", report |-> NoReport]
Returned(kind, report) == [kind |-> kind, exc |-> "", msg |-> "", report |-> report]

NoScore ==
  [exc |-> "", score |-> 0, positive_count |-> 0, negative_count |-> 0,
   total_words |-> 0]

Init ==
  /\ \/ \E shape \in {"malformed", "no_feedbacks"} : data_input = JsonText(shape, <<>>)
     \/ \E n \in 0..MaxBatch : \E records \in [1..n -> JsonRecords] :
          data_input = JsonText("feedbacks", records)
     \/ \E n \in 0..MaxBatch : \E rows \in [1..n -> CsvRecords] :
          data_input = CsvText(rows)
  /\ pc = "start"
  /\ data = <<>>
  /\ is_valid = TRUE
  /\ error_messages = <<>>
  /\ processed_data = <<>>
  /\ result = NoResult
  /\ stages = <<>>
  /\ text = Str(<<>>)
  /\ score_result = NoScore

\* lines 350-356
Parse(input) == IF input.format = "json" THEN ParseJson(input) ELSE ParseCsv(input)

\* A gate that only warns: the run goes on to enrichment whatever the outcome.
GateWarnOnly(valid) == "enrich"

\* lines 360-364: where the run goes after validate_data returns
Gate(valid) == IF ~valid THEN "report" ELSE "enrich"

Decode ==
  /\ pc = "start"
  /\ LET parsed == Parse(data_input)
     IN  /\ stages' = Append(stages, "parse")
         /\ IF parsed.exc = "ValueError"
            THEN /\ result' = ErrorString(parsed.msg)
                 /\ pc' = "done"
                 /\ data' = data
            ELSE IF parsed.exc # ""
            THEN /\ result' = Raised(parsed.exc)
                 /\ pc' = "done"
                 /\ data' = data
            ELSE /\ data' = parsed.records
                 /\ pc' = "validate"
                 /\ result' = result
  /\ UNCHANGED <<data_input, is_valid, error_messages, processed_data>>
  /\ UNCHANGED scorer_vars

Validate ==
  /\ pc = "validate"
  /\ LET v == ValidateData(data)
     IN  /\ stages' = Append(stages, "validate_data")
         /\ IF v.exc # ""
            THEN /\ result' = Raised(v.exc)
                 /\ pc' = "done"
                 /\ UNCHANGED <<is_valid, error_messages>>
            ELSE /\ is_valid' = v.is_valid
                 /\ error_messages' = v.error_messages
                 /\ pc' = Gate(v.is_valid)
                 /\ result' = result
  /\ UNCHANGED <<data_input, data, processed_data>>
  /\ UNCHANGED scorer_vars

ValidationReport ==
  /\ pc = "report"
  /\ LET r == GenerateValidationReport(data)
     IN  /\ stages' = Append(stages, "generate_validation_report")
         /\ result' = IF r.exc # "" THEN Raised(r.exc)
                      ELSE Returned("validation_report", r.report)
         /\ pc' = "done"
  /\ UNCHANGED <<data_input, data, is_valid, error_messages, processed_data>>
  /\ UNCHANGED scorer_vars

Enrich ==
  /\ pc = "enrich"
  /\ LET p == ProcessFeedback(data)
     IN  /\ stages' = Append(stages, "process_feedback")
         /\ IF p.exc # ""
            THEN /\ result' = Raised(p.exc)
                 /\ pc' = "done"
                 /\ processed_data' = processed_data
            ELSE /\ processed_data' = p.processed_data
                 /\ pc' = "render"
                 /\ result' = result
  /\ UNCHANGED <<data_input, data, is_valid, error_messages>>
  /\ UNCHANGED scorer_vars

DetailedReport ==
  /\ pc = "render"
  /\ LET r == GenerateDetailedReport(data, processed_data)
     IN  /\ stages' = Append(stages, "generate_detailed_report")
         /\ result' = IF r.exc # "" THEN Raised(r.exc)
                      ELSE Returned("detail_report", r.report)
         /\ pc' = "done"
  /\ UNCHANGED <<data_input, data, is_valid, error_messages, processed_data>>
  /\ UNCHANGED scorer_vars

Next == Decode \/ Validate \/ ValidationReport \/ Enrich \/ DetailedReport

Spec == Init /\ [][Next]_vars

----------------------------------------------------------------------------
\* calculate_sentiment_score on its own

InitScorer ==
  /\ \E n \in 0..MaxLen : \E w \in [1..n -> ScorerPieces] : text = Str(w)
  /\ score_result = NoScore
  /\ data_input = NoInput
  /\ pc = "score"
  /\ data = <<>>
  /\ is_valid = TRUE
  /\ error_messages = <<>>
  /\ processed_data = <<>>
  /\ result = NoResult
  /\ stages = <<>>

Score ==
  /\ pc = "score"
  /\ score_result' = CalculateSentimentScore(text)
  /\ pc' = "scored"
  /\ UNCHANGED <<data_input, data, is_valid, error_messages, processed_data,
                 result, stages, text>>

NextScorer == Score

SpecScorer == InitScorer /\ [][NextScorer]_vars

----------------------------------------------------------------------------
\* Properties

Ran(stage) == \E i \in 1..Len(stages) : stages[i] = stage

\* The decoder returned a batch.
DecodeReturned == pc # "start" /\ ~(pc = "done" /\ stages = <<"parse">>)

\* The decoder raised.
DecodeFailed == pc = "done" /\ stages = <<"parse">>

\* validate_data returned its pair to process_data.
ValidationReturned ==
  /\ Ran("validate_data")
  /\ ~(pc = "done" /\ stages = <<"parse", "validate_data">>)

\* process_feedback returned the processed batch.
EnrichmentReturned ==
  /\ Ran("process_feedback")
  /\ pc = "render" \/ Ran("generate_detailed_report")

\* C1: enrichment and the detail report are started only after validate_data
\* has run and only when it produced no error message; a batch with an error
\* message never reaches them.
C1_ValidationGatesEnrichment ==
  /\ \A i \in 1..Len(stages) :
       stages[i] \in {"process_feedback", "generate_detailed_report"}
         => /\ \E j \in 1..(i - 1) : stages[j] = "validate_data"
            /\ error_messages = <<>>
            /\ is_valid
  /\ error_messages # <<>>
       => ~Ran("process_feedback") /\ ~Ran("generate_detailed_report")

C1_Witness ==
  /\ pc = "done"
  /\ error_messages # <<>>
  /\ result.kind = "validation_report"
  /\ stages = <<"parse", "validate_data", "generate_validation_report">>

\* C2: whenever validate_data produced at least one error message, the run
\* ends by returning the validation report, whose lines are exactly those
\* messages in the same order.
C2_ErrorsAlwaysReported ==
  (pc = "done" /\ error_messages # <<>>)
    => /\ result.kind = "validation_report"
       /\ result.report.lines = error_messages

\* C3: whenever decoding fails, process_data returns a plain error string;
\* the failure does not leave process_data as an exception.
C3_DecodeFailureIsErrorString ==
  DecodeFailed => result.kind = "error_string"

\* C4: whenever validate_data reports no error, the run ends with the detail
\* report: enrichment and rendering do not fail on a validated batch.
C4_ValidBatchYieldsDetailReport ==
  (pc = "done" /\ ValidationReturned /\ error_messages = <<>>)
    => result.kind = "detail_report"

\* The position of a message's check in the fixed order of the four checks.
CheckOrder(kind) ==
  CASE kind = "missing" -> 1
    [] kind = "score_range" -> 2
    [] kind = "score_type" -> 2
    [] kind = "language" -> 3
    [] OTHER -> 4

\* What it means for a record to violate each check.
Violates(record, check) ==
  CASE check = 1 ->
         \E f \in Range(required_fields) :
           record[f].t = "absent" \/ ~Truthy(record[f])
    [] check = 2 ->
         /\ record.sentiment_score.t \notin {"absent", "none"}
         /\ \/ record.sentiment_score.t \notin {"num", "str"}
            \/ record.sentiment_score.t = "str" /\ ~IsNumeral(record.sentiment_score.w)
            \/ record.sentiment_score.t = "str"
                 /\ IsNumeral(record.sentiment_score.w)
                 /\ (NumeralValue(record.sentiment_score.w) < -100
                     \/ NumeralValue(record.sentiment_score.w) > 100)
            \/ record.sentiment_score.t = "num"
                 /\ (record.sentiment_score.n < -100 \/ record.sentiment_score.n > 100)
    [] check = 3 ->
         /\ record.language.t = "str" /\ record.language.w # <<>>
         /\ record.language.w \notin {<<"en">>, <<"es">>, <<"fr">>, <<"de">>}
    [] OTHER ->
         /\ record.timestamp.t = "str" /\ record.timestamp.w # <<>>
         /\ ~(/\ Len(record.timestamp.w) = 3
              /\ IsDate(record.timestamp.w[1])
              /\ IsTime(record.timestamp.w[2])
              /\ record.timestamp.w[3] \in {"Z", "+00:00", "+01:00", "-01:00"})

InstantUtc(w) ==
  LET z == [i \in 1..Len(w) |-> IF w[i] = "Z" THEN "+00:00" ELSE w[i]]
  IN  (DateOrdinal(z[1]) - 1) * 24 + TimeHour(z[2]) - OffsetHours(z[3])

C7_CountsEveryOccurrence ==
  pc = "scored" =>
    LET tokens == Split(LowerAll(text.w))
        p == OccurrenceCount(positive_words, tokens)
        n == OccurrenceCount(negative_words, tokens)
    IN  /\ score_result.positive_count = p
        /\ score_result.negative_count = n
        /\ score_result.total_words = Len(tokens)
        /\ Len(tokens) > 0 =>
             score_result.score = RoundHalfEven(100 * (p - n), Len(tokens))

\* C8: the counts differ by at most the number of tokens, the score lies in
\* [-1, 1], and a text without tokens scores 0.0 without an error.
C8_ScoreBounded ==
  pc = "scored" =>
    /\ score_result.exc = ""
    /\ score_result.positive_count - score_result.negative_count
         <= score_result.total_words
    /\ score_result.negative_count - score_result.positive_count
         <= score_result.total_words
    /\ score_result.score >= -100
    /\ score_result.score <= 100
    /\ score_result.total_words = 0 => score_result.score = 0

C8_Witness ==
  /\ pc = "scored"
  /\ text.w # <<>>
  /\ score_result.total_words = 0
  /\ score_result.score = 0

\* A sentiment_score cell or value that is the empty string or 'null' in
\* any letter case.
NullLike(v) == v.t = "str" /\ (v.w = <<>> \/ LowerAll(v.w) = <<"null">>)

\* C9: in both decoders a sentiment_score that arrives as 'null' in any
\* letter case, or as the empty string, does not make decoding fail and
\* leaves it as None.
C9_NullLikeScoresBecomeNone ==
  (pc # "start"
   /\ data_input.shape \in {"feedbacks", "table"}
   /\ \A i \in 1..Len(data_input.records) :
        /\ data_input.records[i].mapping
        /\ \/ NullLike(data_input.records[i].sentiment_score)
           \/ data_input.records[i].sentiment_score.t \in {"absent", "none", "num"})
    => /\ DecodeReturned
       /\ Len(data) = Len(data_input.records)
       /\ \A i \in 1..Len(data_input.records) :
            NullLike(data_input.records[i].sentiment_score)
              => data[i].sentiment_score = None

\* C10: a record whose feedback_text is present and empty, and whose other
\* fields are valid, passes validation: no message names its row.
C10_EmptyTextIsNotMissing ==
  ValidationReturned =>
    \A i \in 1..Len(data) :
      (/\ data[i].feedback_text = Str(<<>>)
       /\ \A f \in {"feedback_id", "language", "timestamp"} :
            data[i][f].t = "str" /\ data[i][f].w # <<>>
       /\ \A check \in 2..4 : ~Violates(data[i], check))
        => \A k \in 1..Len(error_messages) : error_messages[k].row # i

====
